---- MODULE Spec2Model ----
(***************************************************************************)
(* Model of the Charon client engine (client.cpp) on top of the XMPP       *)
(* session layer (xmppclient.cpp): peer discovery by ping/presence, RPC    *)
(* forwarding with a per-call response handler, per-type notification      *)
(* states with wait-for-change, and the subscription-setup threads.        *)
(*                                                                         *)
(* Threads: the receive loop ("recv"), the caller threads of the public    *)
(* operations, and one subscription-setup thread per entry of              *)
(* subscribeCalls.  Every mutex-protected section that cannot block is one *)
(* action; a thread that blocks while holding a mutex keeps it across      *)
(* actions.  Clocks are abstracted to monotone "timed out" flags.          *)
(***************************************************************************)
EXTENDS Integers, Sequences, FiniteSets, TLC

\* ------------------------------------------------------------------ data

None == "none"
Null == "null"
Recv == "recv"

\* Caller threads of the public Client operations.
Callers == {"c1", "c2"}

\* JSON values used as RPC parameters, results, error messages and data.
Values == {"hello", "boom"}

\* The requests of the TestBackend that servers answer: method and parameter.
Requests == {<<"echo", "hello">>, <<"echo", "boom">>, <<"error", "boom">>}

\* Full state values of a notification and the ids callers can know.
StateVals == {"s1", "s2"}
StateIds == {"id1", "id2"}

\* Notification type names the application can register.
AllTypes == {"state", "pending"}
Service == "pubsub.srv"

\* Addresses: <<account, resource>>; the empty resource is the bare address.
ServerAccount == "srv"
serverJid == <<ServerAccount, "">>
Senders == {<<"srv", "a">>, <<"srv", "b">>, <<"other", "a">>}

bareJID(j) == <<j[1], "">>
resource(j) == j[2]

\* jsonrpc::Errors::ERROR_RPC_INTERNAL_ERROR
ERROR_RPC_INTERNAL_ERROR == -32603

\* RpcServer::Error (code, message, data)
Error(code, message, data) == [code |-> code, message |-> message, data |-> data]
NoError == Error(0, "", Null)

\* What a public operation gave its caller: nothing yet, a JSON value, or a
\* thrown RpcServer::Error.
NoRet == [kind |-> "none", value |-> Null, error |-> NoError]
Returned(v) == [kind |-> "result", value |-> v, error |-> NoError]
Thrown(e) == [kind |-> "error", value |-> Null, error |-> e]

\* The three transport failures the client raises itself.
MsgNoJid == <<"could not discover full server JID for", serverJid>>
MsgUnavailable == <<"selected server is unavailable", <<"", "">>>>
MsgTimeoutTarget(jid) == <<"timeout waiting for result from", serverJid>>
MsgTimeout(jid) == <<"timeout waiting for result from", jid>>

\* --------------------------------------------------------- wire stanzas

\* RpcResponse extension of an IQ: absent, present but invalid, success with
\* a result, or error with code, message and data.
Ext(kind, result, err) == [kind |-> kind, result |-> result, error |-> err]
AbsentExt == Ext("absent", Null, NoError)
InvalidExt == Ext("invalid", Null, NoError)
SuccessExts == {Ext("success", v, NoError) : v \in Values}
ErrorExts ==
  {Ext("error", Null, Error(42, "boom", Null)), Ext("error", Null, Error(7, "hello", "d"))}
ValidExts == SuccessExts \cup ErrorExts

Iq(subtype, err, ext) == [subtype |-> subtype, err |-> err, ext |-> ext]
NoIq == Iq(None, None, AbsentExt)

\* TestBackend::HandleMethod, as the reply stanza a server running it sends:
\* "echo" returns the argument, "error" throws an error with it as message.
HandleMethod(method, params) ==
  IF method = "echo"
    THEN Iq("result", None, Ext("success", params, NoError))
    ELSE Iq("result", None, Ext("error", Null, Error(42, params, Null)))

\* The replies of a server running the TestBackend.
ServerReplies == {HandleMethod(r[1], r[2]) : r \in Requests}

\* The IQ stanzas the session can hand to a call's response handler: replies
\* of a backend, and stanzas that are no valid reply.
IqStanzas ==
  ServerReplies
    \cup {Iq("result", None, e) : e \in ValidExts \cup {AbsentExt, InvalidExt}}
    \cup {Iq("error", x, AbsentExt) : x \in {None, "service-unavailable", "other"}}
    \cup {Iq("error", "other", e) : e \in SuccessExts}
    \cup {Iq("get", None, e) : e \in SuccessExts}

\* Items a publish/subscribe node can deliver to an item callback: no
\* "update" child, an invalid NotificationUpdate, or a valid one.
Item(kind, type, state) == [kind |-> kind, type |-> type, state |-> state]
Items ==
  {Item("noupdate", "", Null), Item("invalid", "", Null)}
    \cup {Item("valid", t, s) : t \in AllTypes, s \in StateVals}

\* SupportedNotifications extension of a presence: absent, or a service with
\* a map from type name to node name.
NoNotifications == [t \in {} |-> "n1"]
AbsentSn == [present |-> FALSE, service |-> "", notifications |-> NoNotifications]
Sn(f) == [present |-> TRUE, service |-> Service, notifications |-> f]
Adverts ==
  {AbsentSn,
   Sn(NoNotifications),
   Sn([t \in {"pending"} |-> "n2"]),
   Sn([t \in {"state"} |-> "n1"]),
   Sn([t \in AllTypes |-> IF t = "state" THEN "n2" ELSE "n1"])}

Presence(subtype, from, pong, sn) ==
  [subtype |-> subtype, from |-> from, pong |-> pong, sn |-> sn]
NoPresence == Presence(None, <<"", "">>, FALSE, AbsentSn)

\* The presence stanzas the session can hand to the presence handler.
Presences ==
  {Presence("Available", j, p, a) : j \in Senders, p \in BOOLEAN, a \in Adverts}
    \cup {Presence("Unavailable", j, FALSE, AbsentSn) : j \in Senders}
    \cup {Presence("Probe", <<"srv", "a">>, FALSE, AbsentSn)}

\* ------------------------------------------------------------ variables

VARIABLES
  pc,             \* position of each caller thread
  op,             \* operation and arguments of each caller thread
  ret,            \* what the operation gave its caller
  call,           \* the OngoingRpcCall of each caller's ForwardMethod
  woken,          \* why a caller's condition-variable wait can end ("no": it cannot)
  gh,             \* history of each caller's current operation
  workload,       \* what the application registers and each caller thread calls
  mut,            \* holder of Client::Impl::mut
  xmppMut,        \* holder of XmppClient::mut
  main,           \* the application's thread: its place in Disconnect, or the failed CHECK
  fullServerJid,  \* Client::Impl::fullServerJid
  ongoingPing,    \* Client::Impl::ongoingPing refers to a live ping
  pingHolders,    \* callers holding the shared pointer to the ping
  pingTimedOut,   \* the ping's TimedConditionVariable is past its end time
  notifications,  \* Client::notifications: the registered type names
  states,         \* Client::Impl::states: type name -> NotificationState
  subscribeCalls, \* Client::Impl::subscribeCalls: the subscription threads
  pubsub,         \* service of the current publish/subscribe wrapper
  subscribed,     \* types whose item callback the current wrapper holds
  rpc,            \* position of the receive-loop thread
  rPres,          \* presence the receive loop is handling
  selection       \* history of fullServerJid: "none", "first", "lost", "again"

vars ==
  <<pc, op, ret, call, woken, gh, workload, mut, xmppMut, main, fullServerJid,
    ongoingPing, pingHolders, pingTimedOut, notifications, states, subscribeCalls, pubsub,
    subscribed, rpc, rPres, selection>>

callerVars == <<pc, op, ret, call, woken, gh, workload>>
pingVars == <<ongoingPing, pingHolders, pingTimedOut>>
pubsubVars == <<subscribeCalls, pubsub, subscribed>>
recvVars == <<rpc, rPres, selection>>

\* ------------------------------------------------------- OngoingRpcCall

NoCall ==
  [state |-> None, result |-> Null, error |-> NoError, serverJid |-> <<"", "">>,
   timedOut |-> FALSE, sent |-> FALSE]

\* OngoingRpcCall (t): waiting, error(0), the end time in the future.
OngoingRpcCall(to) ==
  [state |-> "WAITING", result |-> Null, error |-> NoError, serverJid |-> to,
   timedOut |-> FALSE, sent |-> FALSE]


\* A handler that marks the call successful without storing the result.
handleIqIDNoResult(cl, iq) ==
  IF cl.state = "WAITING" /\ iq.subtype = "result" /\ iq.ext.kind = "success"
    THEN [call |-> [cl EXCEPT !.state = "RESPONSE_SUCCESS"], notify |-> TRUE]
    ELSE [call |-> cl, notify |-> FALSE]

\* A handler that takes a result stanza without extension for a success.
handleIqIDLenient(cl, iq) ==
  IF cl.state = "WAITING" /\ iq.subtype = "result"
    THEN [call |-> [cl EXCEPT !.state = "RESPONSE_SUCCESS", !.result = iq.ext.result],
          notify |-> TRUE]
    ELSE [call |-> cl, notify |-> FALSE]

\* A handler that does not look at the call's state first.
handleIqIDAgain(cl, iq) ==
  IF iq.subtype = "error" /\ iq.err = "service-unavailable"
    THEN [call |-> [cl EXCEPT !.state = "UNAVAILABLE"], notify |-> TRUE]
  ELSE IF iq.subtype = "result" /\ iq.ext.kind = "success"
    THEN [call |-> [cl EXCEPT !.state = "RESPONSE_SUCCESS", !.result = iq.ext.result],
          notify |-> TRUE]
  ELSE IF iq.subtype = "result" /\ iq.ext.kind = "error"
    THEN [call |-> [cl EXCEPT !.state = "RESPONSE_ERROR", !.error = iq.ext.error],
          notify |-> TRUE]
  ELSE [call |-> cl, notify |-> FALSE]

\* RpcResultHandler::handleIqID on the handler's call: the call afterwards and
\* whether call->cv.Notify () ran.
handleIqID(cl, iq) ==
  IF cl.state # "WAITING"
    THEN [call |-> cl, notify |-> FALSE]
  ELSE IF iq.subtype = "error" /\ iq.err = "service-unavailable"
    THEN [call |-> [cl EXCEPT !.state = "UNAVAILABLE"], notify |-> TRUE]
  ELSE IF iq.subtype # "result"
    THEN [call |-> cl, notify |-> FALSE]
  ELSE IF iq.ext.kind = "absent"
    THEN [call |-> cl, notify |-> FALSE]
  ELSE IF iq.ext.kind = "invalid"
    THEN [call |-> cl, notify |-> FALSE]
  ELSE IF iq.ext.kind = "success"
    THEN [call |-> [cl EXCEPT !.state = "RESPONSE_SUCCESS", !.result = iq.ext.result],
          notify |-> TRUE]
  ELSE [call |-> [cl EXCEPT !.state = "RESPONSE_ERROR", !.error = iq.ext.error],
        notify |-> TRUE]

\* A switch that does not know the unavailable state.
ForwardMethodResultNoUnavailable(cl) ==
  CASE cl.state = "RESPONSE_SUCCESS" -> Returned(cl.result)
    [] cl.state = "RESPONSE_ERROR" -> Thrown(cl.error)
    [] OTHER ->
         IF cl.timedOut
           THEN Thrown(Error(ERROR_RPC_INTERNAL_ERROR, MsgTimeout(cl.serverJid), Null))
           ELSE NoRet

\* A switch that rethrows the error without its data.
ForwardMethodResultNoData(cl) ==
  CASE cl.state = "RESPONSE_SUCCESS" -> Returned(cl.result)
    [] cl.state = "RESPONSE_ERROR" ->
         Thrown(Error(cl.error.code, cl.error.message, Null))
    [] OTHER -> IF cl.timedOut THEN Thrown(cl.error) ELSE NoRet

\* A loop that looks at the end time before the call's state.
ForwardMethodResultTimeoutFirst(cl) ==
  IF cl.timedOut
    THEN Thrown(Error(ERROR_RPC_INTERNAL_ERROR, MsgTimeout(cl.serverJid), Null))
    ELSE CASE cl.state = "RESPONSE_SUCCESS" -> Returned(cl.result)
           [] cl.state = "RESPONSE_ERROR" -> Thrown(cl.error)
           [] cl.state = "UNAVAILABLE" ->
                Thrown(Error(ERROR_RPC_INTERNAL_ERROR, MsgUnavailable, Null))
           [] OTHER -> NoRet

\* The switch and the timeout check of ForwardMethod's loop, run with
\* call->mut held after call->cv.Wait returned: what the call gives its
\* caller, NoRet when the loop goes round again.
ForwardMethodResult(cl) ==
  CASE cl.state = "RESPONSE_SUCCESS" -> Returned(cl.result)
    [] cl.state = "RESPONSE_ERROR" -> Thrown(cl.error)
    [] cl.state = "UNAVAILABLE" ->
         Thrown(Error(ERROR_RPC_INTERNAL_ERROR, MsgUnavailable, Null))
    [] OTHER ->
         IF cl.timedOut
           THEN Thrown(Error(ERROR_RPC_INTERNAL_ERROR, MsgTimeout(cl.serverJid), Null))
           ELSE NoRet

\* ---------------------------------------------------- NotificationState

\* NotificationType::ExtractStateId of the registered types.
ExtractStateId(s) == IF s = "s1" THEN "id1" ELSE "id2"

NotificationState == [hasState |-> FALSE, state |-> Null]

\* A WaitForChange that always waits.
ReturnsImmediatelyNever(st, known) == FALSE

\* NotificationState::WaitForChange returns without waiting.
ReturnsImmediately(st, known) ==
  st.hasState /\ known # ExtractStateId(st.state)

\* An item callback that takes the update of any type.
ItemCallbackAnyType(st, t, item) ==
  IF item.kind \in {"noupdate", "invalid"}
    THEN [st |-> st, notify |-> FALSE]
    ELSE [st |-> [hasState |-> TRUE, state |-> item.state], notify |-> TRUE]

\* An item callback that forgets the state on an invalid update.
ItemCallbackReset(st, t, item) ==
  IF item.kind = "noupdate"
    THEN [st |-> st, notify |-> FALSE]
  ELSE IF item.kind = "invalid"
    THEN [st |-> [hasState |-> FALSE, state |-> Null], notify |-> FALSE]
  ELSE IF item.type # t
    THEN [st |-> st, notify |-> FALSE]
  ELSE [st |-> [hasState |-> TRUE, state |-> item.state], notify |-> TRUE]

\* The item callback of the NotificationState st of type t: the state
\* afterwards and whether cv.notify_all () ran.
ItemCallback(st, t, item) ==
  IF item.kind = "noupdate"
    THEN [st |-> st, notify |-> FALSE]
  ELSE IF item.kind = "invalid"
    THEN [st |-> st, notify |-> FALSE]
  ELSE IF item.type # t
    THEN [st |-> st, notify |-> FALSE]
  ELSE [st |-> [hasState |-> TRUE, state |-> item.state], notify |-> TRUE]

\* --------------------------------------------------------- Client::Impl

HasFullServerJid == resource(fullServerJid) # ""

\* A feature check that wants the advertisement but not the types in it.
SupportsAllPresent(p) == \A t \in DOMAIN states : p.sn.present

\* The feature check at the head of handlePresence's Available case: the
\* loop over states with its two early returns.
SupportsAll(p) ==
  \A t \in DOMAIN states :
    p.sn.present /\ t \in DOMAIN p.sn.notifications

\* std::thread::join on every entry of subscribeCalls returns.
AllJoinable(calls) == \A i \in DOMAIN calls : calls[i].st = "done"

\* A FinishSubscriptions that joins nothing.
FinishSubscriptionsNoJoin(calls) == [ready |-> TRUE, calls |-> calls]

\* FinishSubscriptions: whether it returns, and subscribeCalls when it has.
FinishSubscriptions(calls) == [ready |-> AllJoinable(calls), calls |-> <<>>]

\* Iteration order of the std::map of states.
TypeOrder == <<"pending", "state">>

\* The threads handlePresence starts, one per entry of states, each for the
\* node the advertisement names.
Thread(t, node) == [type |-> t, node |-> node, st |-> "start", stale |-> FALSE]

\* A handlePresence that starts every thread twice.
NewSubscribeCallsTwice(sn) ==
  LET ts == SelectSeq(TypeOrder, LAMBDA t : t \in DOMAIN states)
  IN  [i \in DOMAIN (ts \o ts) |-> Thread((ts \o ts)[i], sn.notifications[(ts \o ts)[i]])]

NewSubscribeCalls(sn) ==
  LET ts == SelectSeq(TypeOrder, LAMBDA t : t \in DOMAIN states)
  IN  [i \in DOMAIN ts |-> Thread(ts[i], sn.notifications[ts[i]])]

\* AddPubSub replaces the wrapper: a thread still running is left with the
\* wrapper that was replaced.
Superseded(calls) ==
  [i \in DOMAIN calls |->
     IF calls[i].st # "done" THEN [calls[i] EXCEPT !.stale = TRUE] ELSE calls[i]]

\* XmppClient::RunWithClient runs its function with XmppClient::mut held; the
\* mutex is recursive.
RunWithClientReady(t) == xmppMut \in {None, t}

\* An entry that pings whenever the address is not qualified.
TryEnsureEntryAlwaysPing ==
  IF HasFullServerJid THEN "return" ELSE "ping"

\* What TryEnsureFullServerJid does on entry.
TryEnsureEntry ==
  IF HasFullServerJid THEN "return"
  ELSE IF ~ongoingPing THEN "ping"
  ELSE "join"


\* ------------------------------------------------------- caller threads

Op(name, a, b) == [name |-> name, a |-> a, b |-> b]
NoOp == Op(None, Null, Null)

\* The calls a caller can make: Client::WaitForChange CHECKs that the type
\* is registered.
Ops(c) ==
  {o \in {Op("ForwardMethod", Null, Null)}
          \cup {Op("WaitForChange", t, k) : t \in notifications, k \in StateIds}
          \cup {Op("GetServerResource", Null, Null)} :
     o.name \in workload.ops[c]}

NoGh ==
  [accepted |-> NoIq, late |-> FALSE, early |-> FALSE, dropped |-> FALSE,
   ignored |-> FALSE]

\* A ForwardMethod that does not check the address it has.
ForwardMethodEnsuredNoCheck ==
  [pc |-> "send", call |-> OngoingRpcCall(fullServerJid), mut |-> None,
   ret |-> NoRet]

\* ForwardMethod from the return of TryEnsureFullServerJid to the end of the
\* block holding mut.
ForwardMethodEnsured ==
  IF ~HasFullServerJid
    THEN [pc |-> "done", call |-> NoCall, mut |-> None,
          ret |-> Thrown(Error(ERROR_RPC_INTERNAL_ERROR, MsgNoJid, Null))]
    ELSE [pc |-> "send", call |-> OngoingRpcCall(fullServerJid), mut |-> None,
          ret |-> NoRet]

\* A WaitForChange that does not check the address it has.
WaitForChangeEnsuredNoCheck ==
  [pc |-> "wfc_enter", call |-> NoCall, mut |-> None, ret |-> NoRet]

\* Client::Impl::WaitForChange from the return of TryEnsureFullServerJid to
\* the end of the block holding mut.
WaitForChangeEnsured ==
  IF ~HasFullServerJid
    THEN [pc |-> "done", call |-> NoCall, mut |-> None,
          ret |-> Thrown(Error(ERROR_RPC_INTERNAL_ERROR, MsgNoJid, Null))]
    ELSE [pc |-> "wfc_enter", call |-> NoCall, mut |-> None, ret |-> NoRet]

\* GetServerResource after TryEnsureFullServerJid: it goes on to
\* FinishSubscriptions with mut held.
GetServerResourceEnsured(c) ==
  [pc |-> "gsr_join", call |-> NoCall, mut |-> c, ret |-> NoRet]

\* TryEnsureFullServerJid has returned to the operation that called it.
Ensured(c) ==
  LET r == CASE op[c].name = "ForwardMethod" -> ForwardMethodEnsured
             [] op[c].name = "WaitForChange" -> WaitForChangeEnsured
             [] OTHER -> GetServerResourceEnsured(c)
  IN  /\ pc' = [pc EXCEPT ![c] = r.pc]
      /\ call' = [call EXCEPT ![c] = r.call]
      /\ ret' = [ret EXCEPT ![c] = r.ret]
      /\ mut' = r.mut

\* The local shared pointer "ping" of caller c goes away; the weak pointer
\* ongoingPing expires with the last one.
DropPing(c) ==
  /\ pingHolders' = pingHolders \ {c}
  /\ ongoingPing' = (ongoingPing /\ pingHolders \ {c} # {})
  /\ pingTimedOut' = (pingTimedOut /\ pingHolders \ {c} # {})

\* The wait loop of TryEnsureFullServerJid, entered with mut held by c and
\* the ping held by holders: ping->Wait (lock) waits unless the ping is past
\* its end time, and then the loop returns.
PingLoop(c, holders, assigned) ==
  IF ~pingTimedOut
    THEN /\ pc' = [pc EXCEPT ![c] = "ping_wait"]
         /\ woken' = [woken EXCEPT ![c] = "no"]
         /\ mut' = None
         /\ pingHolders' = holders
         /\ ongoingPing' = assigned
         /\ UNCHANGED <<call, ret, pingTimedOut>>
    ELSE /\ Ensured(c)
         /\ pingHolders' = holders \ {c}
         /\ ongoingPing' = (assigned /\ holders \ {c} # {})
         /\ pingTimedOut' = (holders \ {c} # {})
         /\ UNCHANGED woken

\* The CHECKs of the public interface that can fail.
Checks ==
  {"abort_impl", "abort_duplicate", "abort_type", "abort_noimpl", "abort_recvloop"}

\* Client::impl is set: Connect has run.
HasImpl == rpc \notin {"unconnected", "disconnected"}

\* A CHECK has failed and the process is gone.
Aborted == main \in Checks

\* A CHECK fails and the process aborts: no thread takes a step any more.
\* The failed check is kept in main and the offending call in op; the
\* application makes no call from inside its Disconnect.
Abort(check, ops) ==
  /\ main \in {"idle", "closed"}
  /\ main' = check
  /\ op' = ops
  /\ UNCHANGED <<pc, ret, call, woken, gh, workload, mut, xmppMut, fullServerJid,
                 pingVars, notifications, states, pubsubVars, recvVars>>

\* An AddNotification without its CHECKs.
AddNotificationAnytime(t) ==
  /\ ~Aborted
  /\ t \notin notifications
  /\ notifications' = notifications \cup {t}
  /\ UNCHANGED <<callerVars, mut, xmppMut, main, fullServerJid, pingVars, states,
                 pubsubVars, recvVars>>

\* Client::AddNotification: CHECK (impl == nullptr), then the type is added
\* and CHECK (res.second) fails for a name that is there already.  Only an
\* application that misuses the interface calls it after Connect.
AddNotification(t) ==
  /\ ~Aborted
  /\ IF HasImpl
       THEN workload.misuse /\ Abort("abort_impl", op)
     ELSE IF t \in notifications
       THEN Abort("abort_duplicate", op)
     ELSE /\ t \in workload.types
          /\ notifications' = notifications \cup {t}
          /\ UNCHANGED <<callerVars, mut, xmppMut, main, fullServerJid, pingVars, states,
                         pubsubVars, recvVars>>

\* XmppClient::recvLoop is null: no receive-loop thread has been started, or
\* Disconnect has joined it.
NoRecvLoop == rpc \in {"unconnected", "joined", "disconnected"}

\* A Connect that starts a receive loop whether or not there is one.
ConnectNoCheck ==
  /\ ~Aborted
  /\ main \in {"idle", "closed"}
  /\ NoRecvLoop \/ workload.misuse
  /\ notifications = workload.types
  /\ states' = [t \in notifications |-> NotificationState]
  /\ rpc' = "sleep"
  /\ main' = "idle"
  /\ UNCHANGED <<callerVars, mut, xmppMut, fullServerJid, pingVars, notifications,
                 pubsubVars, rPres, selection>>

\* Client::Connect, called once the application has registered its types:
\* a new Impl with its fields as constructed and a NotificationState per
\* registered type, and XmppClient::Connect, which starts the receive loop.
\* XmppClient::Connect on a session that has a receive loop (called only by
\* code that misuses the session) fails CHECK (recvLoop == nullptr).
Connect ==
  /\ ~Aborted
  /\ main \in {"idle", "closed"}
  /\ IF NoRecvLoop
       THEN /\ notifications = workload.types
            /\ states' = [t \in notifications |-> NotificationState]
            /\ fullServerJid' = serverJid
            /\ ongoingPing' = FALSE
            /\ pingHolders' = {}
            /\ pingTimedOut' = FALSE
            /\ subscribeCalls' = <<>>
            /\ pubsub' = None
            /\ subscribed' = {}
            /\ selection' = "none"
            /\ rpc' = "sleep"
            /\ main' = "idle"
            /\ UNCHANGED <<callerVars, mut, xmppMut, notifications, rPres>>
       ELSE workload.misuse /\ Abort("abort_recvloop", op)

\* A public operation before Connect, or Client::WaitForChange for a type
\* that is not registered (by an application that misuses the interface): a
\* CHECK fails.
CallRejected(c) ==
  /\ pc[c] = "idle"
  /\ ~Aborted
  /\ IF ~HasImpl
       THEN \E n \in workload.ops[c] :
              Abort("abort_noimpl", [op EXCEPT ![c] = Op(n, Null, Null)])
       ELSE /\ workload.misuse
            /\ "WaitForChange" \in workload.ops[c]
            /\ \E t \in AllTypes \ notifications, k \in StateIds :
                 Abort("abort_type", [op EXCEPT ![c] = Op("WaitForChange", t, k)])

\* A caller starts a public operation.
Start(c) ==
  /\ pc[c] = "idle"
  /\ HasImpl
  /\ main = "idle"
  /\ \E o \in Ops(c) : op' = [op EXCEPT ![c] = o]
  /\ pc' = [pc EXCEPT ![c] = "lock"]
  /\ UNCHANGED <<workload, ret, call, woken, gh, mut, xmppMut, main, fullServerJid, pingVars,
                 notifications, states, pubsubVars, recvVars>>

\* std::unique_lock lock(mut) and the entry of TryEnsureFullServerJid: return
\* at once, create a ping, or join the ongoing one.
Lock(c) ==
  /\ ~Aborted
  /\ pc[c] = "lock"
  /\ mut = None
  /\ CASE TryEnsureEntry = "return" ->
            /\ Ensured(c)
            /\ UNCHANGED <<woken, gh, pingVars>>
       [] TryEnsureEntry = "ping" ->
            /\ pc' = [pc EXCEPT ![c] = "ping_send"]
            /\ mut' = c
            /\ pingHolders' = pingHolders \cup {c}
            /\ pingTimedOut' = FALSE
            /\ UNCHANGED <<call, ret, woken, gh, ongoingPing>>
       [] OTHER ->
            /\ PingLoop(c, pingHolders \cup {c}, ongoingPing)
            /\ UNCHANGED gh
  /\ UNCHANGED <<workload, op, xmppMut, main, fullServerJid, notifications, states, pubsubVars,
                 recvVars>>

\* RunWithClient sends the Ping message to client.serverJid, ongoingPing is
\* set, and the wait loop is entered; mut is held throughout.
PingSend(c) ==
  /\ ~Aborted
  /\ pc[c] = "ping_send"
  /\ RunWithClientReady(c)
  /\ PingLoop(c, pingHolders, TRUE)
  /\ UNCHANGED <<workload, op, gh, xmppMut, main, fullServerJid, notifications, states, pubsubVars,
                 recvVars>>

\* The wait on the ping ends (notified, timed out or spuriously), mut is
\* taken again and the loop checks the timeout and the server JID.
PingWake(c) ==
  /\ ~Aborted
  /\ pc[c] = "ping_wait"
  /\ woken[c] # "no" \/ pingTimedOut
  /\ mut = None
  /\ IF pingTimedOut \/ HasFullServerJid
       THEN Ensured(c) /\ DropPing(c)
       ELSE UNCHANGED <<pc, call, ret, mut, pingVars>>
  /\ woken' = [woken EXCEPT ![c] = "no"]
  /\ UNCHANGED <<workload, op, gh, xmppMut, main, fullServerJid, notifications, states, pubsubVars,
                 recvVars>>

\* RunWithClient sends the IQ with the call's RpcResultHandler.
SendIq(c) ==
  /\ ~Aborted
  /\ pc[c] = "send"
  /\ RunWithClientReady(c)
  /\ call' = [call EXCEPT ![c].sent = TRUE]
  /\ pc' = [pc EXCEPT ![c] = "enter_wait"]
  /\ UNCHANGED <<workload, op, ret, woken, gh, mut, xmppMut, main, fullServerJid, pingVars,
                 notifications, states, pubsubVars, recvVars>>

\* The call's state has been read with call->mut held: return, throw, or go
\* round the loop (call->mut is released in between).
Checked(c) ==
  LET r == ForwardMethodResult(call[c])
  IN  /\ ret' = [ret EXCEPT ![c] = r]
      /\ pc' = [pc EXCEPT ![c] = IF r = NoRet THEN "enter_wait" ELSE "done"]

\* One round of ForwardMethod's loop up to the wait: call->mut is locked and
\* call->cv.Wait waits unless the call is past its end time.
EnterWait(c) ==
  /\ ~Aborted
  /\ pc[c] = "enter_wait"
  /\ IF ~call[c].timedOut
       THEN /\ pc' = [pc EXCEPT ![c] = "call_wait"]
            /\ woken' = [woken EXCEPT ![c] = "no"]
            /\ UNCHANGED ret
       ELSE Checked(c) /\ UNCHANGED woken
  /\ UNCHANGED <<workload, op, call, gh, mut, xmppMut, main, fullServerJid, pingVars, notifications,
                 states, pubsubVars, recvVars>>

\* The wait on the call ends and the state is checked.
CallWake(c) ==
  /\ ~Aborted
  /\ pc[c] = "call_wait"
  /\ woken[c] # "no" \/ call[c].timedOut
  /\ Checked(c)
  /\ woken' = [woken EXCEPT ![c] = "no"]
  /\ UNCHANGED <<workload, op, call, gh, mut, xmppMut, main, fullServerJid, pingVars,
                 notifications, states, pubsubVars, recvVars>>

\* NotificationState::WaitForChange up to the wait.
WfcEnter(c) ==
  /\ ~Aborted
  /\ pc[c] = "wfc_enter"
  /\ LET st == states[op[c].a]
     IN  IF ReturnsImmediately(st, op[c].b)
           THEN /\ ret' = [ret EXCEPT ![c] = Returned(st.state)]
                /\ pc' = [pc EXCEPT ![c] = "done"]
                /\ UNCHANGED <<woken, gh>>
           ELSE /\ pc' = [pc EXCEPT ![c] = "wfc_wait"]
                /\ woken' = [woken EXCEPT ![c] = "no"]
                /\ UNCHANGED <<ret, gh>>
  /\ UNCHANGED <<workload, op, call, mut, xmppMut, main, fullServerJid, pingVars, notifications,
                 states, pubsubVars, recvVars>>

\* A WaitForChange that throws when its wait ends.
WfcWakeThrow(c) ==
  /\ pc[c] = "wfc_wait"
  /\ woken[c] # "no"
  /\ ret' = [ret EXCEPT ![c] = Thrown(Error(ERROR_RPC_INTERNAL_ERROR, MsgNoJid, Null))]
  /\ pc' = [pc EXCEPT ![c] = "done"]
  /\ UNCHANGED <<workload, op, call, woken, gh, mut, xmppMut, main, fullServerJid, pingVars,
                 notifications, states, pubsubVars, recvVars>>

\* cv.wait_for has returned: the current state is returned.
WfcWake(c) ==
  /\ ~Aborted
  /\ pc[c] = "wfc_wait"
  /\ woken[c] # "no"
  /\ ret' = [ret EXCEPT ![c] = Returned(states[op[c].a].state)]
  /\ pc' = [pc EXCEPT ![c] = "done"]
  /\ UNCHANGED <<workload, op, call, woken, gh, mut, xmppMut, main, fullServerJid, pingVars,
                 notifications, states, pubsubVars, recvVars>>

\* GetServerResource: FinishSubscriptions has joined every thread, with mut
\* held, and the resource is returned.
GsrJoin(c) ==
  /\ ~Aborted
  /\ pc[c] = "gsr_join"
  /\ LET f == FinishSubscriptions(subscribeCalls)
     IN  /\ f.ready
         /\ subscribeCalls' = f.calls
  /\ ret' = [ret EXCEPT ![c] = Returned(resource(fullServerJid))]
  /\ pc' = [pc EXCEPT ![c] = "done"]
  /\ mut' = None
  /\ UNCHANGED <<workload, op, call, woken, gh, xmppMut, main, fullServerJid, pingVars, notifications,
                 states, pubsub, subscribed, recvVars>>

\* The operation has returned or thrown; its call object is dropped.
Return(c) ==
  /\ ~Aborted
  /\ pc[c] = "done"
  /\ pc' = [pc EXCEPT ![c] = "idle"]
  /\ op' = [op EXCEPT ![c] = NoOp]
  /\ ret' = [ret EXCEPT ![c] = NoRet]
  /\ call' = [call EXCEPT ![c] = NoCall]
  /\ gh' = [gh EXCEPT ![c] = NoGh]
  /\ woken' = [woken EXCEPT ![c] = "no"]
  /\ UNCHANGED <<workload, mut, xmppMut, main, fullServerJid, pingVars, notifications, states,
                 pubsubVars, recvVars>>


\* ---------------------------------------------------------------- clocks

\* The ping's end time passes.
TimeoutPing ==
  /\ ~Aborted
  /\ pingHolders # {}
  /\ ~pingTimedOut
  /\ pingTimedOut' = TRUE
  /\ UNCHANGED <<callerVars, mut, xmppMut, main, fullServerJid, ongoingPing, pingHolders,
                 notifications, states, pubsubVars, recvVars>>

\* The end time of caller c's call passes.
TimeoutCall(c) ==
  /\ ~Aborted
  /\ pc[c] \in {"send", "enter_wait", "call_wait"}
  /\ ~call[c].timedOut
  /\ call' = [call EXCEPT ![c].timedOut = TRUE]
  /\ UNCHANGED <<workload, pc, op, ret, woken, gh, mut, xmppMut, main, fullServerJid, pingVars,
                 notifications, states, pubsubVars, recvVars>>

\* WAITFORCHANGE_TIMEOUT of caller c's cv.wait_for passes.
TimeoutWfc(c) ==
  /\ ~Aborted
  /\ pc[c] = "wfc_wait"
  /\ woken[c] # "timeout"
  /\ woken' = [woken EXCEPT ![c] = "timeout"]
  /\ UNCHANGED <<workload, pc, op, ret, call, gh, mut, xmppMut, main, fullServerJid, pingVars,
                 notifications, states, pubsubVars, recvVars>>

\* A condition-variable wait ends without a notification.
Spurious(c) ==
  /\ ~Aborted
  /\ pc[c] \in {"ping_wait", "call_wait", "wfc_wait"}
  /\ woken[c] = "no"
  /\ woken' = [woken EXCEPT ![c] = "woken"]
  /\ UNCHANGED <<workload, pc, op, ret, call, gh, mut, xmppMut, main, fullServerJid, pingVars,
                 notifications, states, pubsubVars, recvVars>>

\* --------------------------------------------------- subscription threads

\* PubSubImpl::SubscribeToNode sends the subscription request.
SubSend(i) ==
  /\ ~Aborted
  /\ i \in DOMAIN subscribeCalls
  /\ subscribeCalls[i].st = "start"
  /\ RunWithClientReady(<<"sub", i>>)
  /\ subscribeCalls' = [subscribeCalls EXCEPT ![i].st = "wait"]
  /\ UNCHANGED <<callerVars, mut, xmppMut, main, fullServerJid, pingVars, notifications,
                 states, pubsub, subscribed, recvVars>>

\* ------------------------------------------------------- receive loop

\* notify_all on a condition variable: every caller waiting at pc w is woken.
Notified(w, at) ==
  [c \in Callers |-> IF pc[c] = at THEN "woken" ELSE w[c]]

\* A tail that notifies nobody.
NotifyNobody(w) == w

\* The tail of handlePresence's Available case: ongoingPing.lock () and
\* ping->Notify ().
NotifyPing(w) == IF ongoingPing THEN Notified(w, "ping_wait") ELSE w

\* XmppClient::Receive locks XmppClient::mut.
RecvLock ==
  /\ ~Aborted
  /\ rpc = "sleep"
  /\ main # "join"
  /\ xmppMut = None
  /\ rpc' = "recv"
  /\ xmppMut' = Recv
  /\ UNCHANGED <<callerVars, mut, main, fullServerJid, pingVars, notifications, states,
                 pubsubVars, rPres, selection>>

\* XmppClient::Receive returns and the loop sleeps; also the return of a
\* handler to client.recv.
RecvUnlock ==
  /\ ~Aborted
  /\ rpc \in {"recv", "pres_rejected", "pres_kept"}
  /\ rpc' = IF rpc = "recv" THEN "sleep" ELSE "recv"
  /\ xmppMut' = IF rpc = "recv" THEN None ELSE xmppMut
  /\ UNCHANGED <<callerVars, mut, main, fullServerJid, pingVars, notifications, states,
                 pubsubVars, rPres, selection>>

\* The receive loop finds stopLoop set, or Receive finds the connection
\* closed, and the thread ends.
RecvStop ==
  /\ ~Aborted
  /\ rpc = "sleep"
  /\ main = "join"
  /\ rpc' = "stopped"
  /\ UNCHANGED <<callerVars, mut, xmppMut, main, fullServerJid, pingVars, notifications,
                 states, pubsubVars, rPres, selection>>

\* Client::Disconnect, called when the application has no operation in
\* progress.  With a connection XmppClient::Disconnect enters
\* client.disconnect () and takes no lock for it; with impl null it returns
\* at once.
Disconnect ==
  /\ ~Aborted
  /\ main = "idle"
  /\ \A c \in Callers : pc[c] = "idle"
  /\ main' = IF HasImpl THEN "disconnect" ELSE "closed"
  /\ UNCHANGED <<callerVars, mut, xmppMut, fullServerJid, pingVars, notifications,
                 states, pubsubVars, recvVars>>

\* client.disconnect () returns; connected = false and stopLoop = true.
Disconnected ==
  /\ main = "disconnect"
  /\ ~Aborted
  /\ main' = "join"
  /\ UNCHANGED <<callerVars, mut, xmppMut, fullServerJid, pingVars, notifications,
                 states, pubsubVars, recvVars>>

\* recvLoop->join () returns for the ended thread and recvLoop is reset:
\* XmppClient::Disconnect returns.
DisconnectJoin ==
  /\ ~Aborted
  /\ main = "join"
  /\ rpc = "stopped"
  /\ main' = "reset"
  /\ rpc' = "joined"
  /\ UNCHANGED <<callerVars, mut, xmppMut, fullServerJid, pingVars, notifications,
                 states, pubsubVars, rPres, selection>>

\* impl.reset () in Client::Disconnect: the Impl destructor joins the
\* subscription threads in FinishSubscriptions.
ImplReset ==
  /\ ~Aborted
  /\ main = "reset"
  /\ FinishSubscriptions(subscribeCalls).ready
  /\ main' = "closed"
  /\ rpc' = "disconnected"
  /\ UNCHANGED <<callerVars, mut, xmppMut, fullServerJid, pingVars, notifications,
                 states, pubsubVars, rPres, selection>>

\* The stanzas that are a valid response or a service-unavailable error; any
\* other one delivered to a waiting call is recorded in gh as dropped.
Resolving(iq) ==
  \/ iq.subtype = "result" /\ iq.ext.kind \in {"success", "error"}
  \/ iq.subtype = "error" /\ iq.err = "service-unavailable"

\* client.recv hands an IQ to the RpcResultHandler of caller c's call.
RecvIq(c, iq) ==
  /\ ~Aborted
  /\ rpc = "recv"
  /\ call[c].sent
  /\ pc[c] # "done"
  /\ LET r == handleIqID(call[c], iq)
     IN  /\ call' = [call EXCEPT ![c] = r.call]
         /\ woken' = IF r.notify /\ pc[c] = "call_wait"
                       THEN [woken EXCEPT ![c] = "woken"]
                       ELSE woken
         /\ gh' = [gh EXCEPT
                     ![c].accepted = IF r.call # call[c] THEN iq ELSE @,
                     ![c].late = IF r.call # call[c] THEN call[c].timedOut ELSE @,
                     ![c].early = IF r.call # call[c] THEN pc[c] # "call_wait" ELSE @,
                     ![c].dropped = @ \/ (call[c].state = "WAITING" /\ ~Resolving(iq)),
                     ![c].ignored = @ \/ call[c].state # "WAITING"]
  /\ UNCHANGED <<workload, pc, op, ret, mut, xmppMut, main, fullServerJid, pingVars, notifications,
                 states, pubsubVars, recvVars>>

\* A handlePresence that takes the last responder, not the first.
AvailableLast(p) ==
  /\ fullServerJid' = p.from
  /\ selection' = IF selection = "none" THEN "first" ELSE "again"
  /\ woken' = NotifyPing(woken)
  /\ rpc' = "recv"
  /\ rPres' = NoPresence
  /\ UNCHANGED mut

\* handlePresence, Available, with mut locked: the first responder is
\* recorded and answered.  With notification types it goes on to
\* FinishSubscriptions, without it notifies the ping and returns ("pres_kept"
\* when it kept the address against another resource).
Available(p) ==
  /\ fullServerJid' = IF ~HasFullServerJid THEN p.from ELSE fullServerJid
  /\ selection' = IF HasFullServerJid THEN selection
                  ELSE IF selection = "none" THEN "first" ELSE "again"
  /\ IF ~HasFullServerJid /\ DOMAIN states # {}
       THEN /\ RunWithClientReady(Recv)
            /\ rpc' = "pres_join"
            /\ rPres' = p
            /\ mut' = Recv
            /\ UNCHANGED woken
       ELSE /\ woken' = NotifyPing(woken)
            /\ rpc' = IF HasFullServerJid /\ p.from # fullServerJid
                        THEN "pres_kept" ELSE "recv"
            /\ rPres' = NoPresence
            /\ UNCHANGED mut

\* A handlePresence that keeps the address of a peer that went away.
UnavailableKeep(p) ==
  /\ fullServerJid' = fullServerJid
  /\ selection' = IF p.from = fullServerJid THEN "lost" ELSE selection
  /\ rpc' = "recv"
  /\ rPres' = NoPresence
  /\ UNCHANGED <<woken, mut>>

\* A handlePresence that gives up the address for any Unavailable presence.
UnavailableAny(p) ==
  /\ fullServerJid' = bareJID(fullServerJid)
  /\ selection' = IF HasFullServerJid THEN "lost" ELSE selection
  /\ rpc' = "recv"
  /\ rPres' = NoPresence
  /\ UNCHANGED <<woken, mut>>

\* handlePresence, Unavailable, with mut locked.
Unavailable(p) ==
  /\ fullServerJid' =
       IF p.from = fullServerJid THEN bareJID(fullServerJid) ELSE fullServerJid
  /\ selection' = IF p.from = fullServerJid THEN "lost" ELSE selection
  /\ rpc' = "recv"
  /\ rPres' = NoPresence
  /\ UNCHANGED <<woken, mut>>

\* client.recv hands a presence to handlePresence: its early returns, and
\* the case's body when mut is free; when mut is held the receive loop
\* blocks on it.
RecvPresence(p) ==
  /\ ~Aborted
  /\ rpc = "recv"
  /\ CASE p.subtype = "Available" /\ ~p.pong ->
            UNCHANGED <<recvVars, fullServerJid, woken, mut>>
       [] p.subtype = "Available" /\ p.pong /\ ~SupportsAll(p) ->
            rpc' = "pres_rejected"
              /\ UNCHANGED <<rPres, selection, fullServerJid, woken, mut>>
       [] p.subtype = "Available" /\ p.pong /\ SupportsAll(p) ->
            IF mut = None
              THEN Available(p)
              ELSE rpc' = "pres_lock" /\ rPres' = p
                   /\ UNCHANGED <<selection, fullServerJid, woken, mut>>
       [] p.subtype = "Unavailable" ->
            IF mut = None
              THEN Unavailable(p)
              ELSE rpc' = "pres_lock" /\ rPres' = p
                   /\ UNCHANGED <<selection, fullServerJid, woken, mut>>
       [] OTHER ->
            UNCHANGED <<recvVars, fullServerJid, woken, mut>>
  /\ UNCHANGED <<workload, pc, op, ret, call, gh, xmppMut, main, pingVars, notifications, states,
                 pubsubVars>>

\* The receive loop, blocked in handlePresence on mut, gets it.
PresLocked ==
  /\ ~Aborted
  /\ rpc = "pres_lock"
  /\ mut = None
  /\ IF rPres.subtype = "Available" THEN Available(rPres) ELSE Unavailable(rPres)
  /\ UNCHANGED <<workload, pc, op, ret, call, gh, xmppMut, main, pingVars, notifications, states,
                 pubsubVars>>

\* handlePresence, Available, from FinishSubscriptions on: the threads are
\* joined, the wrapper is replaced, one thread per type is started, the ping
\* is notified and mut released.
PresJoin ==
  /\ ~Aborted
  /\ rpc = "pres_join"
  /\ LET f == FinishSubscriptions(subscribeCalls)
     IN  /\ f.ready
         /\ subscribeCalls' = Superseded(f.calls) \o NewSubscribeCalls(rPres.sn)
  /\ pubsub' = rPres.sn.service
  /\ subscribed' = {}
  /\ woken' = NotifyPing(woken)
  /\ mut' = None
  /\ rpc' = "recv"
  /\ rPres' = NoPresence
  /\ UNCHANGED <<workload, pc, op, ret, call, gh, xmppMut, main, fullServerJid, pingVars,
                 notifications, states, selection>>

\* client.recv hands a publish/subscribe item to the item callback of type t.
RecvItem(t, item) ==
  /\ ~Aborted
  /\ rpc = "recv"
  /\ t \in subscribed
  /\ LET r == ItemCallback(states[t], t, item)
     IN  /\ states' = [states EXCEPT ![t] = r.st]
         /\ woken' = IF r.notify
                       THEN [c \in Callers |->
                               IF pc[c] = "wfc_wait" /\ op[c].a = t /\ woken[c] # "timeout"
                                 THEN "woken" ELSE woken[c]]
                       ELSE woken
  /\ UNCHANGED <<workload, pc, op, ret, call, gh, mut, xmppMut, main, fullServerJid, pingVars,
                 notifications, pubsubVars, recvVars>>

\* client.recv processes the confirmation of a subscription request:
\* SubscribeToNode returns and the thread ends.
RecvSubscribed(i) ==
  /\ ~Aborted
  /\ rpc = "recv"
  /\ i \in DOMAIN subscribeCalls
  /\ subscribeCalls[i].st = "wait"
  /\ subscribeCalls' = [subscribeCalls EXCEPT ![i].st = "done"]
  /\ subscribed' = subscribed \cup {subscribeCalls[i].type}
  /\ UNCHANGED <<callerVars, mut, xmppMut, main, fullServerJid, pingVars, notifications,
                 states, pubsub, recvVars>>

\* ------------------------------------------------------- specification

\* What the application does with the client: the types it registered
\* before Connect and the operations its two threads call.
Workload(types, o1, o2) ==
  [types |-> types, ops |-> [c \in Callers |-> IF c = "c1" THEN o1 ELSE o2],
   misuse |-> FALSE]

\* An application that does not keep to the preconditions of the interface.
Misuser ==
  [Workload({"state"}, {"WaitForChange"}, {}) EXCEPT !.misuse = TRUE]
Workloads ==
  {Workload({}, {"ForwardMethod"}, {"GetServerResource"}),
   Workload({"state"}, {"WaitForChange", "GetServerResource"}, {"WaitForChange"}),
   Workload(AllTypes, {}, {}),
   Misuser}

\* One thread making every operation, with a type registered.
SingleCaller ==
  Workload({"state"}, {"ForwardMethod", "WaitForChange", "GetServerResource"}, {})

\* The state after the construction of the Client, for the workloads ws.
InitWith(ws) ==
  /\ workload \in ws
  /\ notifications = {}
  /\ pc = [c \in Callers |-> "idle"]
  /\ op = [c \in Callers |-> NoOp]
  /\ ret = [c \in Callers |-> NoRet]
  /\ call = [c \in Callers |-> NoCall]
  /\ woken = [c \in Callers |-> "no"]
  /\ gh = [c \in Callers |-> NoGh]
  /\ mut = None
  /\ xmppMut = None
  /\ main = "idle"
  /\ fullServerJid = serverJid
  /\ ongoingPing = FALSE
  /\ pingHolders = {}
  /\ pingTimedOut = FALSE
  /\ states = [t \in notifications |-> NotificationState]
  /\ subscribeCalls = <<>>
  /\ pubsub = None
  /\ subscribed = {}
  /\ rpc = "unconnected"
  /\ rPres = NoPresence
  /\ selection = "none"

Init == InitWith(Workloads)

Next ==
  \/ \E t \in AllTypes : AddNotification(t)
  \/ Connect
  \/ \E c \in Callers : CallRejected(c)
  \/ \E c \in Callers : Start(c)
  \/ \E c \in Callers : Lock(c)
  \/ \E c \in Callers : PingSend(c)
  \/ \E c \in Callers : PingWake(c)
  \/ \E c \in Callers : SendIq(c)
  \/ \E c \in Callers : EnterWait(c)
  \/ \E c \in Callers : CallWake(c)
  \/ \E c \in Callers : WfcEnter(c)
  \/ \E c \in Callers : WfcWake(c)
  \/ \E c \in Callers : GsrJoin(c)
  \/ \E c \in Callers : Return(c)
  \/ TimeoutPing
  \/ \E c \in Callers : TimeoutCall(c)
  \/ \E c \in Callers : TimeoutWfc(c)
  \/ \E c \in Callers : Spurious(c)
  \/ \E i \in DOMAIN subscribeCalls : SubSend(i)
  \/ RecvLock
  \/ RecvUnlock
  \/ RecvStop
  \/ Disconnect
  \/ Disconnected
  \/ DisconnectJoin
  \/ ImplReset
  \/ \E c \in Callers, iq \in IqStanzas : RecvIq(c, iq)
  \/ \E p \in Presences : RecvPresence(p)
  \/ PresLocked
  \/ PresJoin
  \/ \E t \in AllTypes, item \in Items : RecvItem(t, item)
  \/ \E i \in DOMAIN subscribeCalls : RecvSubscribed(i)

Spec == Init /\ [][Next]_vars

\* Fair scheduling: every thread that can take a step, or can take it again
\* and again (a mutex that keeps becoming free), takes it; every timed wait
\* elapses; the server confirms subscription requests.  Calls are started
\* and stanzas arrive as the environment pleases.
Fairness ==
  /\ \A c \in Callers :
       /\ SF_vars(Lock(c)) /\ SF_vars(PingSend(c)) /\ SF_vars(PingWake(c))
       /\ SF_vars(SendIq(c)) /\ WF_vars(EnterWait(c)) /\ WF_vars(CallWake(c))
       /\ WF_vars(WfcEnter(c)) /\ WF_vars(WfcWake(c)) /\ WF_vars(GsrJoin(c))
       /\ WF_vars(Return(c))
       /\ WF_vars(TimeoutCall(c)) /\ WF_vars(TimeoutWfc(c))
  /\ WF_vars(TimeoutPing)
  /\ \A i \in 1..Cardinality(AllTypes) :
       SF_vars(SubSend(i)) /\ SF_vars(RecvSubscribed(i))
  /\ SF_vars(RecvLock) /\ WF_vars(RecvUnlock)
  /\ SF_vars(PresLocked) /\ WF_vars(PresJoin)

FairSpec == InitWith({SingleCaller}) /\ [][Next]_vars /\ Fairness

\* The scheduling a waiting WaitForChange relies on: its timed wait elapses
\* and the woken thread runs.
WaitFairness ==
  \A c \in Callers : WF_vars(TimeoutWfc(c)) /\ WF_vars(WfcWake(c))

WaitSpec == InitWith({SingleCaller}) /\ [][Next]_vars /\ WaitFairness

\* The scheduling a ForwardMethod relies on once its request is sent: the
\* call's end time passes and the calling thread runs.
CallFairness ==
  \A c \in Callers :
    WF_vars(TimeoutCall(c)) /\ WF_vars(EnterWait(c)) /\ WF_vars(CallWake(c))

CallSpec == InitWith({SingleCaller}) /\ [][Next]_vars /\ CallFairness

\* ------------------------------------------------------------- properties

\* The caller's ForwardMethod has finished.
ForwardMethodDone(c) == pc[c] = "done" /\ op[c].name = "ForwardMethod"

\* The stanza that resolved caller c's call was a valid response of kind k,
\* processed while the call was waiting.
Resolved(c, k) ==
  gh[c].accepted.subtype = "result" /\ gh[c].accepted.ext.kind = k

\* C1: when the response handler of a forwarded call processed a valid
\* success response while the call was waiting, ForwardMethod returns exactly
\* the result carried in it; the reply of the backend to "echo" carries the
\* parameter, so forwarding "echo" returns the parameter.
C1_SuccessResult ==
  /\ \A c \in Callers :
       ForwardMethodDone(c) /\ Resolved(c, "success")
         => ret[c] = Returned(gh[c].accepted.ext.result)
  /\ \A r \in Requests :
       r[1] = "echo" => HandleMethod(r[1], r[2]).ext = Ext("success", r[2], NoError)

C1_Witness ==
  \E c \in Callers :
    /\ ForwardMethodDone(c) /\ Resolved(c, "success")
    /\ gh[c].accepted = HandleMethod("echo", "hello")
    /\ ret[c].kind = "result"

\* C2: when the response handler of a forwarded call processed a valid error
\* response while the call was waiting, ForwardMethod throws an error with
\* exactly the code, message and data carried in it; the reply of the
\* backend to "error" carries the parameter as message.
C2_ErrorPassthrough ==
  /\ \A c \in Callers :
       ForwardMethodDone(c) /\ Resolved(c, "error")
         => /\ ret[c].kind = "error"
            /\ ret[c].error.code = gh[c].accepted.ext.error.code
            /\ ret[c].error.message = gh[c].accepted.ext.error.message
            /\ ret[c].error.data = gh[c].accepted.ext.error.data
  /\ \A r \in Requests :
       r[1] = "error" =>
         /\ HandleMethod(r[1], r[2]).ext.kind = "error"
         /\ HandleMethod(r[1], r[2]).ext.error.message = r[2]

C2_Witness ==
  \E c \in Callers :
    /\ ForwardMethodDone(c) /\ Resolved(c, "error")
    /\ gh[c].accepted.ext.error.data # Null
    /\ ret[c].kind = "error"

\* The timeout failure of a call sent to the address jid.
TimeoutFailure(jid) ==
  Thrown(Error(ERROR_RPC_INTERNAL_ERROR,
               <<"timeout waiting for result from", jid>>, Null))

\* C4, as stated: if no stanza resolves the call before its deadline,
\* ForwardMethod fails with the timeout error for the peer the request was
\* sent to.
C4_DeadlineTimeout ==
  \A c \in Callers :
    ForwardMethodDone(c) /\ call[c].sent /\ (gh[c].accepted = NoIq \/ gh[c].late)
      => ret[c] = TimeoutFailure(call[c].serverJid)

\* C4, amended: if no stanza has resolved the call by the time the caller
\* last checks it, ForwardMethod fails with the timeout error for the peer
\* the request was sent to, and returns no result.
C4_TimeoutError ==
  \A c \in Callers :
    ForwardMethodDone(c) /\ call[c].sent /\ gh[c].accepted = NoIq
      => ret[c] = TimeoutFailure(call[c].serverJid)

C4_Witness ==
  \E c \in Callers :
    /\ ForwardMethodDone(c) /\ call[c].sent /\ gh[c].accepted = NoIq
    /\ call[c].timedOut
    /\ ret[c].kind = "error"

\* The positions of a caller inside TryEnsureFullServerJid.
Ensuring == {"lock", "ping_send", "ping_wait"}

\* C5: a request is only ever sent to a resource-qualified address, and a
\* ForwardMethod that leaves the discovery with no qualified address set
\* throws the internal error and has sent no request.
C5_QualifiedOnly ==
  /\ [](\A c \in Callers : call[c].sent => resource(call[c].serverJid) # "")
  /\ [][\A c \in Callers :
          (op[c].name = "ForwardMethod" /\ pc[c] \in Ensuring
             /\ pc'[c] \notin Ensuring /\ ~HasFullServerJid)
            => /\ pc'[c] = "done"
               /\ ret'[c].kind = "error"
               /\ ret'[c].error.code = ERROR_RPC_INTERNAL_ERROR
               /\ ~call'[c].sent]_vars

C5_Witness ==
  \E c \in Callers :
    /\ ForwardMethodDone(c)
    /\ ret[c] = Thrown(Error(ERROR_RPC_INTERNAL_ERROR, MsgNoJid, Null))
    /\ ~call[c].sent
    /\ ~HasFullServerJid

\* C3: every call of ForwardMethod, WaitForChange or GetServerResource that
\* has been entered eventually returns or throws, under fair scheduling and
\* with timed waits that elapse.
C3_EventuallyReturns ==
  \A c \in Callers : (pc[c] = "lock") ~> (pc[c] = "done")

\* The advertisement of presence p names every registered type.
Parity(p) == p.sn.present /\ notifications \subseteq DOMAIN p.sn.notifications

\* handlePresence runs for the presence p in this step.
Processes(p) == RecvPresence(p) \/ (PresLocked /\ rPres = p)

\* C6, as stated: a peer whose Available presence carries Pong but whose
\* advertisement is missing or omits a registered type is not recorded as the
\* qualified address: no step that processes such a presence changes the
\* address.
C6_ParityRejection ==
  [][fullServerJid' # fullServerJid
       => \A p \in Presences :
            ~(p.subtype = "Available" /\ p.pong /\ ~Parity(p) /\ Processes(p))]_vars

\* C6, amended: when the client has at least one registered type, a peer
\* whose Available presence carries Pong but whose advertisement is missing
\* or omits a registered type is not recorded as the qualified address, even
\* if no peer is selected: no step that processes such a presence changes the
\* address.
C6_ParityRejectionWithTypes ==
  [][(notifications # {} /\ fullServerJid' # fullServerJid)
       => \A p \in Presences :
            ~(p.subtype = "Available" /\ p.pong /\ ~Parity(p) /\ Processes(p))]_vars

C6_Witness ==
  rpc = "pres_rejected" /\ notifications # {} /\ ~HasFullServerJid

\* The advertisement of presence p lacks no registered type.
FullParity(p) ==
  \A t \in notifications : p.sn.present /\ t \in DOMAIN p.sn.notifications

\* C7: while a qualified address is set, a step that changes it processes no
\* Available presence; and a step that sets a qualified address processes an
\* Available presence with Pong from that address.
C7_FirstResponderWins ==
  [][/\ (HasFullServerJid /\ fullServerJid' # fullServerJid)
          => \A p \in Presences : p.subtype = "Available" => ~Processes(p)
     /\ (~HasFullServerJid /\ resource(fullServerJid') # "")
          => \E p \in Presences :
               /\ p.subtype = "Available" /\ p.pong /\ FullParity(p)
               /\ p.from = fullServerJid'
               /\ Processes(p)]_vars

C7_Witness ==
  rpc = "pres_kept" /\ HasFullServerJid

\* Caller c's ForwardMethod leaves the entry of TryEnsureFullServerJid in this
\* step, the address lost and no peer selected since.
NextForwardMethod(c) ==
  /\ op[c].name = "ForwardMethod"
  /\ pc[c] = "lock" /\ pc'[c] # "lock"
  /\ selection = "lost"

\* C8, as stated: after an Unavailable presence from the selected peer has
\* been processed, the next ForwardMethod sends a new Ping and runs a new
\* discovery wait.
C8_NewPing ==
  [][\A c \in Callers : NextForwardMethod(c) => pc'[c] = "ping_send"]_vars

\* C8, amended: after an Unavailable presence from the selected peer has been
\* processed, the next ForwardMethod sends a new Ping unless a discovery wait
\* is in flight, which it joins; a call is only ever created for the address
\* selected at that time, never for the one that was lost.
C8_Rediscovery ==
  [][\A c \in Callers :
       /\ NextForwardMethod(c)
            => /\ ~ongoingPing => pc'[c] = "ping_send"
               /\ ongoingPing => pc'[c] \in {"ping_wait", "done"}
               /\ ~call'[c].sent
       /\ (pc[c] # "send" /\ pc'[c] = "send")
            => /\ selection \in {"first", "again"}
               /\ HasFullServerJid
               /\ call'[c].serverJid = fullServerJid]_vars

C8_Witness ==
  \E c \in Callers :
    op[c].name = "ForwardMethod" /\ pc[c] = "ping_send" /\ selection = "lost"

\* C9: no subscription thread runs against a wrapper that has been replaced,
\* and whenever handlePresence replaces the wrapper every thread started
\* before has finished.
C9_SubscriptionIsolation ==
  /\ [](\A i \in DOMAIN subscribeCalls : ~subscribeCalls[i].stale)
  /\ [][(rpc = "pres_join" /\ rpc' # "pres_join")
          => \A i \in DOMAIN subscribeCalls : subscribeCalls[i].st = "done"]_vars

C9_Witness ==
  /\ selection = "again" /\ rpc = "recv" /\ pubsub # None
  /\ \E i \in DOMAIN subscribeCalls : subscribeCalls[i].st = "start"

\* C10: a WaitForChange that reaches the notification state when a state
\* has been received whose id differs from the known id returns that state
\* in the same step, without waiting.
C10_ImmediateReturn ==
  [][\A c \in Callers :
       (pc[c] = "wfc_enter" /\ pc'[c] # "wfc_enter"
          /\ states[op[c].a].hasState
          /\ ExtractStateId(states[op[c].a].state) # op[c].b)
         => /\ pc'[c] = "done"
            /\ ret'[c] = Returned(states[op[c].a].state)
            /\ woken'[c] = "no"]_vars

C10_Witness ==
  \E c \in Callers :
    /\ pc[c] = "done" /\ op[c].name = "WaitForChange"
    /\ woken[c] = "no"
    /\ ret[c].kind = "result" /\ ret[c].value \in StateVals
    /\ ExtractStateId(ret[c].value) # op[c].b

\* C11: while a WaitForChange waits, the state of its type changes only by a
\* valid update for that type; when the wait ends the call returns the
\* cached state, never an error; and under fair scheduling with timed waits
\* that elapse, a waiting call returns.
C11_TimeoutReturn ==
  /\ [][\A c \in Callers :
          pc[c] = "wfc_wait" =>
            /\ states'[op[c].a] # states[op[c].a]
                 => \E item \in Items :
                      /\ item.kind = "valid" /\ item.type = op[c].a
                      /\ RecvItem(op[c].a, item)
            /\ pc'[c] # "wfc_wait"
                 => /\ pc'[c] = "done"
                    /\ ret'[c] = Returned(states[op[c].a].state)]_vars
  /\ \A c \in Callers : (pc[c] = "wfc_wait") ~> (pc[c] = "done")

C11_Witness ==
  \E c \in Callers :
    /\ pc[c] = "done" /\ op[c].name = "WaitForChange"
    /\ woken[c] = "timeout"
    /\ ~states[op[c].a].hasState
    /\ ret[c] = Returned(Null)

\* C12: a WaitForChange that leaves the discovery with no qualified address
\* set throws the internal error, whatever state is cached; and a
\* WaitForChange for a type that is not registered never gets past the CHECK.
C12_NoAddressFails ==
  /\ [][\A c \in Callers :
          (op[c].name = "WaitForChange" /\ pc[c] \in Ensuring
             /\ pc'[c] \notin Ensuring /\ ~HasFullServerJid)
            => /\ pc'[c] = "done"
               /\ ret'[c] = Thrown(Error(ERROR_RPC_INTERNAL_ERROR, MsgNoJid, Null))]_vars
  /\ [](\A c \in Callers :
          (op[c].name = "WaitForChange" /\ op[c].a \notin notifications)
            => Aborted)

C12_Witness ==
  \E c \in Callers :
    /\ pc[c] = "done" /\ op[c].name = "WaitForChange"
    /\ states[op[c].a].hasState
    /\ ExtractStateId(states[op[c].a].state) # op[c].b
    /\ ret[c] = Thrown(Error(ERROR_RPC_INTERNAL_ERROR, MsgNoJid, Null))

\* C13: the handler of a waiting call leaves the call as it is and notifies
\* nobody for every stanza that is neither a valid response nor a
\* service-unavailable error; the step that delivers such a stanza changes
\* neither the call nor any waiter; and a finished call that was resolved by
\* no stanza failed by its timeout, one that was resolved was resolved by a
\* valid response or a service-unavailable error.
C13_MalformedDropped ==
  /\ [](\A c \in Callers :
          call[c].state = "WAITING" =>
            \A iq \in IqStanzas :
              ~Resolving(iq) => handleIqID(call[c], iq) = [call |-> call[c], notify |-> FALSE])
  /\ [][\A c \in Callers :
          (gh'[c].dropped /\ ~gh[c].dropped) => call' = call /\ woken' = woken]_vars
  /\ [](\A c \in Callers :
          (ForwardMethodDone(c) /\ call[c].sent) =>
            IF gh[c].accepted = NoIq
              THEN ret[c] = TimeoutFailure(call[c].serverJid)
              ELSE Resolving(gh[c].accepted))

C13_Witness ==
  \E c \in Callers :
    /\ ForwardMethodDone(c) /\ gh[c].dropped /\ gh[c].accepted = NoIq
    /\ call[c].state = "WAITING" /\ call[c].result = Null /\ call[c].error = NoError
    /\ ret[c] = TimeoutFailure(call[c].serverJid)

\* The stanza is a valid response of the peer.
ValidResponse(iq) == iq.subtype = "result" /\ iq.ext.kind \in {"success", "error"}

\* C14: a ForwardMethod whose request was sent and that got no valid response
\* of the peer ends in one of two ways: with the internal error "selected
\* server is unavailable" when a service-unavailable error was handled while
\* the call was waiting, and with its timeout error otherwise; it returns no
\* result, and once the request is sent the call always ends.
C14_UnavailableOrTimeout ==
  /\ [](\A c \in Callers :
          (ForwardMethodDone(c) /\ call[c].sent /\ ~ValidResponse(gh[c].accepted)) =>
            IF gh[c].accepted.subtype = "error" /\ gh[c].accepted.err = "service-unavailable"
              THEN ret[c] = Thrown(Error(ERROR_RPC_INTERNAL_ERROR,
                                         <<"selected server is unavailable", <<"", "">>>>,
                                         Null))
              ELSE ret[c] = TimeoutFailure(call[c].serverJid))
  /\ \A c \in Callers :
       (call[c].sent /\ pc[c] \in {"enter_wait", "call_wait"}) ~> (pc[c] = "done")

C14_Witness ==
  \E c \in Callers :
    /\ ForwardMethodDone(c) /\ call[c].sent
    /\ selection = "lost" /\ fullServerJid = bareJID(call[c].serverJid)
    /\ call[c].state = "UNAVAILABLE"
    /\ ret[c].kind = "error" /\ ret[c].error.message = MsgUnavailable

\* C15: an AddNotification after Connect fails its CHECK, and so does one for
\* a name that is registered already; the registered types change only
\* before Connect and only by a new name; and while the connection exists
\* the types with a NotificationState are the registered types and do not
\* change.
C15_RegistrationFrozen ==
  /\ [](HasImpl => DOMAIN states = notifications)
  /\ [][/\ (HasImpl /\ \E t \in AllTypes : AddNotification(t)) => main' = "abort_impl"
        /\ \A t \in notifications :
             (rpc = "unconnected" /\ AddNotification(t)) => main' = "abort_duplicate"
        /\ notifications' # notifications
             => /\ rpc = "unconnected"
                /\ \E t \in AllTypes \ notifications :
                     notifications' = notifications \cup {t}
        /\ HasImpl => notifications' = notifications /\ DOMAIN states' = DOMAIN states]_vars

C15_Witness ==
  main = "abort_impl" /\ notifications # {} /\ DOMAIN states = notifications

\* The threads that are operating on the connection: the receive loop from
\* its lock of XmppClient::mut to the end of Receive, handlers included, and
\* the application's thread inside client.disconnect ().  A send through
\* RunWithClient is one step, taken with XmppClient::mut free or its own.
OnConnection ==
  (IF xmppMut = Recv THEN {Recv} ELSE {})
    \cup (IF main = "disconnect" THEN {"main"} ELSE {})

\* C16: at no time do two threads operate on the connection: the receive
\* loop's drain, a send through RunWithClient and the session's Connect and
\* Disconnect exclude one another.
C16_Serialized == Cardinality(OnConnection) <= 1

\* C17: the receive-loop thread never blocks but in its idle sleep: in the
\* presence handler it never waits for Client::Impl::mut while a caller
\* thread holds it, and it never waits in a join for a subscription thread
\* that has not finished.
C17_NeverBlocks ==
  /\ ~(rpc = "pres_lock" /\ mut \in Callers)
  /\ ~(rpc = "pres_join" /\ ~FinishSubscriptions(subscribeCalls).ready)

\* C18: a call leaves the waiting state at most once: once its state is
\* service-unavailable, success or error, a stanza delivered to its handler
\* (recorded in gh as ignored) changes no call and notifies nobody, and until the call object is dropped
\* at the operation's return no step changes its state, result or error.
C18_ResolvedOnce ==
  [][\A c \in Callers :
       (call[c].sent /\ call[c].state # "WAITING")
         => /\ \/ /\ call'[c].state = call[c].state
                  /\ call'[c].result = call[c].result
                  /\ call'[c].error = call[c].error
               \/ pc[c] = "done" /\ call'[c] = NoCall
            /\ gh'[c].ignored /\ gh'[c] # gh[c] => call' = call /\ woken' = woken]_vars

C18_Witness == \E c \in Callers :
  /\ gh[c].ignored
  /\ ForwardMethodDone(c)
  /\ call[c].state = "RESPONSE_SUCCESS"
  /\ ret[c] = Returned(gh[c].accepted.ext.result)

\* C19: there is at most one discovery wait: the callers in
\* TryEnsureFullServerJid are the holders of the one ping, at most one of
\* them is about to send its Ping, and a caller entering it makes a new ping
\* (and goes on to send the Ping message) only if nobody holds one; otherwise
\* it joins the ping that is there, with the end time that ping has, and sends
\* nothing; with a qualified address it neither pings nor waits.
C19_SingleDiscovery ==
  /\ [](/\ \A c \in Callers : pc[c] \in {"ping_send", "ping_wait"} <=> c \in pingHolders
        /\ Cardinality({c \in Callers : pc[c] = "ping_send"}) <= 1
        /\ ongoingPing => pingHolders # {})
  /\ [][\A c \in Callers :
         (pc[c] = "lock" /\ pc'[c] # "lock")
           => IF HasFullServerJid
                THEN pc'[c] \notin {"ping_send", "ping_wait"} /\ UNCHANGED pingVars
              ELSE IF pingHolders = {}
                THEN pc'[c] = "ping_send" /\ pingHolders' = {c}
              ELSE /\ pc'[c] # "ping_send"
                   /\ pingTimedOut' = pingTimedOut
                   /\ IF pingTimedOut
                        THEN pc'[c] # "ping_wait" /\ pingHolders' = pingHolders
                        ELSE pc'[c] = "ping_wait" /\ pingHolders' = pingHolders \cup {c}]_vars

C19_Witness ==
  /\ pingHolders = Callers
  /\ \A c \in Callers : pc[c] = "ping_wait"
  /\ ongoingPing /\ ~HasFullServerJid

\* handlePresence returns in this step from an Available presence with Pong,
\* at once, after waiting for mut, or after the join; with supported, only
\* from a presence that passed the feature check.
Returns(supported) ==
  \/ /\ rpc = "recv"
     /\ \/ rpc' \in {"pres_kept", "pres_rejected"}
        \/ rpc' = "recv" /\ (HasFullServerJid \/ fullServerJid' # fullServerJid)
     /\ \E p \in Presences :
          /\ p.subtype = "Available" /\ p.pong
          /\ supported => SupportsAll(p)
          /\ RecvPresence(p)
  \/ /\ rpc = "pres_lock"
     /\ rPres.subtype = "Available"
     /\ PresLocked /\ rpc' # "pres_join"
  \/ /\ rpc = "pres_join"
     /\ PresJoin

\* A caller is waiting on the ongoing ping.
DiscoveryWait == ongoingPing /\ \E c \in Callers : pc[c] = "ping_wait"

\* Every caller waiting on the ongoing ping is notified in this step.
WaitWoken ==
  \A c \in Callers : (ongoingPing /\ pc[c] = "ping_wait") => woken'[c] = "woken"

\* C20, as stated: whenever handlePresence has processed an Available
\* presence with Pong, the discovery wait in flight is woken, whether the
\* peer was selected, ignored for one selected already, or rejected for
\* lacking a registered type.
C20_WokenWhateverOutcome ==
  [][(DiscoveryWait /\ Returns(FALSE)) => WaitWoken]_vars

\* C20, amended: whenever handlePresence has processed an Available presence
\* with Pong whose advertisement names every registered type, the discovery
\* wait in flight is woken as the handler returns, whether the peer was
\* selected or ignored for one selected already; a presence rejected for
\* lacking a registered type wakes nobody.
C20_WokenUnlessRejected ==
  [][/\ (DiscoveryWait /\ Returns(TRUE)) => WaitWoken
     /\ (rpc = "recv" /\ rpc' = "pres_rejected") => woken' = woken]_vars

C20_Witness ==
  /\ rpc = "pres_kept"
  /\ ongoingPing
  /\ \E c \in Callers : pc[c] = "ping_wait" /\ woken[c] = "woken"

\* The Unavailable presences among the stanzas.
UnavailablePresences == {p \in Presences : p.subtype = "Unavailable"}

\* handlePresence runs its Unavailable case for the presence p in this step:
\* at once, or after waiting for mut.
UnavailableHandled(p) ==
  /\ \/ rpc = "recv" /\ rpc' = "recv" /\ RecvPresence(p)
     \/ rpc = "pres_lock" /\ rPres = p /\ PresLocked

\* C21: an Unavailable presence from the selected qualified address resets
\* the address to its bare part, one from any other sender leaves the
\* address as it is; either way the publish/subscribe wrapper, its
\* callbacks, the subscription threads, the ping and its waiters are left
\* as they are.
C21_UnavailableFrame ==
  [][(rpc \in {"recv", "pres_lock"} /\ mut = None)
       => (\A p \in UnavailablePresences :
             UnavailableHandled(p)
               => /\ fullServerJid' = IF p.from = fullServerJid
                                        THEN bareJID(fullServerJid)
                                        ELSE fullServerJid
                  /\ UNCHANGED <<pubsubVars, pingVars, woken>>)]_vars

C21_Witness ==
  /\ selection = "lost" /\ ~HasFullServerJid
  /\ pubsub # None
  /\ \E i \in DOMAIN subscribeCalls : subscribeCalls[i].st # "done"
  /\ ongoingPing

\* C22: while the connection exists, a step that changes the
\* NotificationState of a type is that type's item callback processing a
\* valid update of the type, which becomes the cached state; no other step
\* (presence handling, discovery, ForwardMethod, WaitForChange) changes it,
\* and hasState, once true, stays true.
C22_StateOnlyByCallback ==
  [][(HasImpl /\ HasImpl')
       => (\A t \in DOMAIN states :
             /\ states'[t] # states[t]
                  => \E item \in Items :
                       /\ item.kind = "valid" /\ item.type = t
                       /\ RecvItem(t, item)
                       /\ states'[t] = [hasState |-> TRUE, state |-> item.state]
             /\ states[t].hasState => states'[t].hasState)]_vars

C22_Witness ==
  /\ selection \in {"lost", "again"}
  /\ \E t \in DOMAIN states : states[t].hasState
  /\ \E c \in Callers : pc[c] = "done" /\ op[c].name = "WaitForChange"

\* C23: an item without "update" child, with an invalid update or with an
\* update of another type than the callback's leaves every
\* NotificationState as it is and wakes nobody; a valid update of the
\* callback's type sets hasState, becomes the cached state and wakes every
\* WaitForChange waiting for that type.
C23_ItemCallback ==
  [][(rpc = "recv" /\ subscribed # {})
       => (\A t \in subscribed, item \in Items :
             RecvItem(t, item)
               => IF item.kind = "valid" /\ item.type = t
                    THEN /\ states'[t] = [hasState |-> TRUE, state |-> item.state]
                         /\ \A u \in DOMAIN states \ {t} : states'[u] = states[u]
                         /\ \A c \in Callers :
                              (pc[c] = "wfc_wait" /\ op[c].a = t) => woken'[c] # "no"
                    ELSE states' = states /\ woken' = woken)]_vars

C23_Witness ==
  \E c \in Callers :
    /\ pc[c] = "wfc_wait" /\ woken[c] = "woken"
    /\ states[op[c].a].hasState

\* C24: a session has at most one receive-loop thread.  Connect starts the
\* loop only on a session without one and fails its CHECK on a session whose
\* loop has not been joined; XmppClient::Disconnect returns only with the
\* loop stopped and joined; a Disconnect without a connection joins
\* nothing; and after a Disconnect, Connect can start a loop again.
C24_SingleRecvLoop ==
  /\ [][/\ Connect => IF NoRecvLoop
                         THEN rpc' = "sleep"
                         ELSE main' = "abort_recvloop" /\ rpc' = rpc
        /\ (main # "reset" /\ main' = "reset") => rpc = "stopped" /\ rpc' = "joined"
        /\ (main = "idle" /\ main' = "closed") => rpc = "unconnected" /\ rpc' = rpc]_vars
  /\ []((rpc = "disconnected" /\ ~Aborted) => ENABLED (Connect /\ rpc' = "sleep"))

C24_Witness ==
  /\ main = "abort_recvloop"
  /\ ~NoRecvLoop

\* handlePresence runs the locked part of its Available case for the
\* presence p with Pong in this step: at once, or after waiting for mut.
AvailableHandled(p) ==
  /\ p.subtype = "Available" /\ p.pong
  /\ \/ rpc = "recv" /\ mut = None /\ RecvPresence(p)
     \/ rpc = "pres_lock" /\ rPres = p /\ PresLocked

\* The step selects a peer.
Selects == fullServerJid' # fullServerJid /\ resource(fullServerJid') # ""

\* The step starts a subscription thread.
StartsThread ==
  \E i \in DOMAIN subscribeCalls' :
    /\ subscribeCalls'[i].st = "start"
    /\ i \in DOMAIN subscribeCalls => subscribeCalls[i] # subscribeCalls'[i]

\* C25: with no type registered, an Available presence with Pong processed
\* while no peer is selected is accepted with or without advertisement, and
\* the selection makes no wrapper and starts no thread; with a type
\* registered, the selection goes on to the join, after which
\* subscribeCalls holds exactly one new thread per registered type, for the
\* node the advertisement gives for the type, on a wrapper of the advertised
\* service; and threads are started by no other step.
C25_ThreadsPerSelection ==
  [][/\ (DOMAIN states = {} /\ ~HasFullServerJid /\ rpc \in {"recv", "pres_lock"})
          => (\A p \in Presences :
                AvailableHandled(p)
                  => fullServerJid' = p.from /\ UNCHANGED pubsubVars)
     /\ (DOMAIN states # {} /\ Selects) => rpc' = "pres_join" /\ UNCHANGED pubsubVars
     /\ (rpc = "pres_join" /\ rpc' = "recv")
          => /\ pubsub' = rPres.sn.service
             /\ \A t \in DOMAIN states :
                  \E i \in DOMAIN subscribeCalls' :
                    /\ subscribeCalls'[i] = Thread(t, rPres.sn.notifications[t])
                    /\ \A j \in DOMAIN subscribeCalls' :
                         subscribeCalls'[j].type = t => j = i
             /\ \A i \in DOMAIN subscribeCalls' : subscribeCalls'[i].type \in DOMAIN states
     /\ StartsThread => rpc = "pres_join" /\ rpc' = "recv"]_vars

C25_Witness ==
  /\ DOMAIN states = AllTypes
  /\ HasFullServerJid /\ rpc = "recv"
  /\ pubsub = Service
  /\ \A i \in DOMAIN subscribeCalls : subscribeCalls[i].st = "start"
  /\ {subscribeCalls[i].type : i \in DOMAIN subscribeCalls} = AllTypes

\* C26: a WaitForChange that has returned a state before its wait timed out
\* (at once, or woken from cv.wait_for) returned a state whose id differs
\* from the id the caller knew.
C26_EarlyReturnDiffers ==
  \A c \in Callers :
    (/\ pc[c] = "done" /\ op[c].name = "WaitForChange"
     /\ woken[c] # "timeout"
     /\ ret[c].kind = "result" /\ ret[c].value \in StateVals)
      => ExtractStateId(ret[c].value) # op[c].b

\* C27: the selected address always belongs to the target account,
\* whichever accounts the processed presences came from, and a request is
\* only ever sent to a resource of the target account.
C27_TargetAccountOnly ==
  /\ bareJID(fullServerJid) = serverJid
  /\ \A c \in Callers : call[c].sent => bareJID(call[c].serverJid) = serverJid

\* C28: no response is lost to a notify-before-wait race.  A ForwardMethod
\* whose call the response handler resolved after the request was sent and
\* before the caller's last look at it, be it before the caller started to
\* wait on the call's condition, reports the outcome the handler recorded
\* (the result, the error, or the unavailable error) and never the timeout
\* error; and a caller that finds its call resolved leaves the loop at once.
C28_NoLostResponse ==
  /\ [](\A c \in Callers :
          ForwardMethodDone(c) /\ call[c].sent /\ call[c].state # "WAITING"
            => /\ ret[c] # TimeoutFailure(call[c].serverJid)
               /\ call[c].state = "RESPONSE_SUCCESS" => ret[c] = Returned(call[c].result)
               /\ call[c].state = "RESPONSE_ERROR" => ret[c] = Thrown(call[c].error)
               /\ call[c].state = "UNAVAILABLE"
                    => ret[c] = Thrown(Error(ERROR_RPC_INTERNAL_ERROR,
                                             MsgUnavailable, Null)))
  /\ [][\A c \in Callers :
          (/\ pc[c] \in {"enter_wait", "call_wait"} /\ pc'[c] # pc[c]
           /\ call[c].sent /\ call[c].state # "WAITING")
            => pc'[c] = IF pc[c] = "enter_wait" /\ ~call[c].timedOut
                          THEN "call_wait" ELSE "done"]_vars

C28_Witness ==
  \E c \in Callers :
    /\ ForwardMethodDone(c) /\ call[c].sent /\ gh[c].early
    /\ call[c].state = "RESPONSE_SUCCESS"
    /\ ret[c] = Returned(call[c].result)

====
